---- MODULE Spec2Model ----
(***************************************************************************)
(* A model of the first-fit free-list allocator of src/allocator.rs and   *)
(* of the spin lock of src/mutex.rs.                                       *)
(*                                                                         *)
(* The managed memory is modelled by the headers written into it: `heap`   *)
(* maps the start address of every header that was ever written to its     *)
(* fields, and `first_header` is the head of the chain.  Addresses and     *)
(* sizes are machine words of WordBits bits.                               *)
(***************************************************************************)
EXTENDS Integers, Naturals, Sequences, FiniteSets, TLC

\* ---------------------------------------------------------------- bounds
\* width of usize in the model (64 in the build; narrowed to keep TLC's
\* integers exact, wide enough to address a region of 1 MiB)
WordBits == 21
\* number of allocate / deallocate calls explored after initialisation
MaxOps == 6

\* ------------------------------------------------------------- constants
HEADER_SIZE == 32
PAGE_SIZE == 4096
Null == 0

Word == 2 ^ WordBits

CONVENTIONAL_MEMORY == "CONVENTIONAL_MEMORY"
RESERVED_MEMORY == "RESERVED"

\* request sizes and alignments handed to alloc (alignments are powers of
\* two, as core::alloc::Layout guarantees)
AllocSizes == {0, 1, 3000}
AllocAligns == {1, 4096}

Desc(start, pages, type) ==
    [physical_start |-> start, number_of_pages |-> pages, memory_type |-> type]

\* the memory maps the firmware may hand over
MemoryMaps ==
    { << Desc(0, 3, CONVENTIONAL_MEMORY) >>,
      << Desc(0, 1, CONVENTIONAL_MEMORY),
         Desc(2 * PAGE_SIZE, 2, CONVENTIONAL_MEMORY),
         Desc(4 * PAGE_SIZE, 1, RESERVED_MEMORY),
         Desc(5 * PAGE_SIZE, 2, CONVENTIONAL_MEMORY) >>,
      << Desc(0, 2, CONVENTIONAL_MEMORY),
         Desc(3 * PAGE_SIZE, 1, CONVENTIONAL_MEMORY),
         Desc(5 * PAGE_SIZE, 4, RESERVED_MEMORY) >> }

\* ------------------------------------------------------ word arithmetic
Max(a, b) == IF a >= b THEN a ELSE b

\* mutant: nothing is subtracted
wrapping_sub_nothing(a, b) == a

wrapping_sub(a, b) == (a - b + Word) % Word

\* mutant: nothing is subtracted
saturating_sub_nothing(a, b) == a

saturating_sub(a, b) == IF a >= b THEN a - b ELSE 0

RECURSIVE BitLength(_)
BitLength(v) == IF v = 0 THEN 0 ELSE 1 + BitLength(v \div 2)

leading_zeros(v) == WordBits - BitLength(v)

\* mutant: the shift amount wraps around the width (wrapping_shl)
checked_shl_wrapping(x, n) ==
    [ok |-> TRUE, val |-> (x * (2 ^ (n % WordBits))) % Word]

\* usize::checked_shl: None when the shift is not smaller than the width
checked_shl(x, n) ==
    IF n >= WordBits
    THEN [ok |-> FALSE, val |-> 0]
    ELSE [ok |-> TRUE, val |-> (x * (2 ^ n)) % Word]

\* mutant: the mask is ignored, so nothing is rounded down
BitAnd_unmasked(a, b) == a

RECURSIVE BitAnd(_, _)
BitAnd(a, b) ==
    IF a = 0 \/ b = 0
    THEN 0
    ELSE (a % 2) * (b % 2) + 2 * BitAnd(a \div 2, b \div 2)

\* mutant: the complement keeps every bit set, so nothing is masked off
BitNot_unmasked(a) == Word - 1

BitNot(a) == Word - 1 - a

\* mutant: the shift is one short, so the size is rounded down
round_up_to_nearest_pow2_down(v) ==
    checked_shl(1, saturating_sub(WordBits - leading_zeros(v), 1))

round_up_to_nearest_pow2(v) ==
    checked_shl(1, WordBits - leading_zeros(wrapping_sub(v, 1)))

\* ---------------------------------------------------------------- state
VARIABLES
    first_header,   \* FirstFitAllocator.first_header: address of the head, or Null
    heap,           \* header address -> [next_header, size, is_allocated]
    phase,          \* "boot" before init_with_mmap has run, "run" after
    panicked,       \* an assertion of the allocator has failed
    live,           \* allocations handed out and not yet freed: [addr, size, align]
    returned,       \* every allocation alloc has ever returned: [addr, size, align]
    freed,          \* every address dealloc has been called on
    last,           \* the last call: what it was given, what it returned, what it wrote
    pre,            \* first_header, heap and live as they were before the last call
    loop,           \* layout of the running allocate/deallocate loop, or NoLoop
    opsLeft,        \* calls still to be explored
    memory_map      \* the memory map init_with_mmap was given, << >> before

allocVars == << first_header, heap, phase, panicked, live, returned, freed,
                last, pre, loop, opsLeft, memory_map >>

\* the state of the other components (declared here, described below)
VARIABLES
    pw,             \* round_up_to_nearest_pow2 under test: its argument and result
    locked,         \* Mutex.locked
    taker_line_num, \* Mutex.taker_line_num
    proc,           \* the callers of the Mutex: where each one stands
    mxlast,         \* the last event at the Mutex
    mxprev          \* the event before it

otherVars == << pw, locked, taker_line_num, proc, mxlast, mxprev >>

\* the exclusive borrow of FirstFitAllocator.first_header and the flow using it
VARIABLES
    borrow,         \* who holds the RefCell's mutable borrow: "none", "main", "irq"
    task,           \* where the interruptible flow stands inside its operation
    access,         \* the last operation on the chain: by whom, under what borrow
    linked          \* every header address that has been reachable from the head

cellVars == << borrow, task, access, linked >>

\* the global timer of hpet.rs and the calls that use it
VARIABLES
    HPET,           \* the static HPET: the Hpet stored, or NoHpet for None
    main_counter,   \* HpetRegisters.main_counter_value
    caller,         \* each caller's place inside set_global_hpet or global_timestamp
    stored,         \* the timers set_global_hpet has stored, in order
    stamps,         \* the last two readings of global_timestamp, oldest first
    hplast,         \* the last step of a caller
    halted          \* a panic has stopped the kernel

hpetVars == << HPET, main_counter, caller, stored, stamps, hplast, halted >>

vars == << allocVars, otherVars, cellVars, hpetVars >>

NoLoop == [size |-> 0, align |-> 0]

NoHeap == [a \in {} |-> 0]

Header(next, size, allocated) ==
    [next_header |-> next, size |-> size, is_allocated |-> allocated]

\* the memory after a header was written at address a
Put(h, a, hdr) == [x \in (DOMAIN h) \cup {a} |-> IF x = a THEN hdr ELSE h[x]]

Call(op, size, align, ok, addr, block, written) ==
    [op |-> op, size |-> size, align |-> align, ok |-> ok, addr |-> addr,
     block |-> block, written |-> written]

NoCall == Call("none", 0, 0, FALSE, Null, Null, {})

Snapshot ==
    [first_header |-> first_header, heap |-> heap, live |-> live,
     freed |-> freed, last |-> [op |-> last.op, ok |-> last.ok]]

\* --------------------------------------------------------------- Header
\* mutant: the two headers and the alignment slack are not reserved
can_provide_no_reserve(hdr, size, align) == hdr.size >= size + HEADER_SIZE

can_provide(hdr, size, align) == hdr.size >= size + HEADER_SIZE * 2 + align

\* mutant: the flag is read the wrong way round
is_allocated_inverted(hdr) == ~hdr.is_allocated

is_allocated(hdr) == hdr.is_allocated

\* mutant: the end is taken one header too far
end_addr_past(h, a) == a + h[a].size + HEADER_SIZE

end_addr(h, a) == a + h[a].size

\* Header::new_from_addr
new_from_addr(h, a) == Put(h, a, Header(Null, 0, FALSE))

NotProvided(h) ==
    [ok |-> FALSE, panic |-> FALSE, addr |-> Null, block |-> Null,
     heap |-> h, written |-> {}]

\* Header::provide on the header at address self
provide(h, self, reqSize, reqAlign) ==
    LET r == round_up_to_nearest_pow2(reqSize) IN
    IF ~r.ok THEN NotProvided(h) ELSE
    LET size == Max(r.val, HEADER_SIZE)
        align == Max(reqAlign, HEADER_SIZE)
    IN
    IF is_allocated(h[self]) \/ ~can_provide(h[self], size, align)
    THEN NotProvided(h)
    ELSE
    LET self_end == end_addr(h, self)
        allocated_addr == BitAnd(self_end - size, BitNot(align - 1))
        hA == allocated_addr - HEADER_SIZE
        sizeA == size + HEADER_SIZE
        endA == hA + sizeA
        old_next == h[self].next_header
        padded == endA # self_end
        sizeP == self_end - endA
        size_used == IF padded THEN sizeA + sizeP ELSE sizeA
        \* the new headers are written and self.next_header is taken
        h1 == Put(new_from_addr(h, hA), hA,
                  Header(IF padded THEN endA ELSE old_next, sizeA, TRUE))
        h2 == IF padded
              THEN Put(new_from_addr(h1, endA), endA, Header(old_next, sizeP, FALSE))
              ELSE h1
        h3 == [h2 EXCEPT ![self].next_header = Null]
        wr == {self, hA} \cup (IF padded THEN {endA} ELSE {})
    IN
    IF ~(h[self].size >= size_used + HEADER_SIZE)
    THEN [ok |-> FALSE, panic |-> TRUE, addr |-> Null, block |-> self,
          heap |-> h3, written |-> wr]
    ELSE [ok |-> TRUE, panic |-> FALSE, addr |-> allocated_addr, block |-> self,
          heap |-> [h3 EXCEPT ![self].size = h[self].size - size_used,
                              ![self].next_header = hA],
          written |-> wr]

\* ---------------------------------------------------- FirstFitAllocator
\* the loop of alloc_with_options, started at header a
RECURSIVE walk(_, _, _, _)

\* mutant: the rest of the chain is tried before the block itself (last fit)
walk_last_fit(h, a, size, align) ==
    IF a = Null
    THEN NotProvided(h)
    ELSE LET q == walk(h, h[a].next_header, size, align) IN
         IF q.ok \/ q.panic
         THEN q
         ELSE provide(h, a, size, align)

\* mutant: a block that cannot provide is marked allocated on the way
walk_marking(h, a, size, align) ==
    IF a = Null
    THEN NotProvided(h)
    ELSE LET p == provide(h, a, size, align) IN
         IF p.ok \/ p.panic
         THEN p
         ELSE walk([h EXCEPT ![a].is_allocated = TRUE], h[a].next_header,
                   size, align)

walk(h, a, size, align) ==
    IF a = Null
    THEN NotProvided(h)
    ELSE LET p == provide(h, a, size, align) IN
         IF p.ok \/ p.panic
         THEN p
         ELSE walk(h, h[a].next_header, size, align)

alloc_with_options(h, head, size, align) == walk(h, head, size, align)

\* mutant: the header is looked for behind the address instead of in front
from_allocated_regional_behind(addr) == addr + HEADER_SIZE

\* Header::from_allocated_regional: the header in front of an allocated address
from_allocated_regional(addr) == addr - HEADER_SIZE

\* mutant: the header is written afresh, as new_from_addr does
dealloc_reset(h, ptr) == new_from_addr(h, from_allocated_regional(ptr))

\* mutant: the freed header also lets go of the headers behind it
dealloc_unlinks(h, ptr) ==
    [h EXCEPT ![from_allocated_regional(ptr)].is_allocated = FALSE,
              ![from_allocated_regional(ptr)].next_header = Null]

\* mutant: the flag is flipped instead of cleared
dealloc_toggle(h, ptr) ==
    [h EXCEPT ![from_allocated_regional(ptr)].is_allocated = ~@]

\* GlobalAlloc::dealloc: the memory after it
dealloc(h, ptr) == [h EXCEPT ![from_allocated_regional(ptr)].is_allocated = FALSE]

\* mutant: the new header is not linked to the head that was there before
add_free_from_descriptor_unlinked(s, desc) ==
    LET start0 == desc.physical_start
        size0 == (desc.number_of_pages * 4096) % Word
        start_addr == IF start0 = 0 THEN start0 + 4096 ELSE start0
        size == IF start0 = 0 THEN saturating_sub(size0, 4096) ELSE size0
    IN
    IF size <= 4096
    THEN s
    ELSE [first_header |-> start_addr,
          heap |-> Put(new_from_addr(s.heap, start_addr), start_addr,
                       Header(Null, size, FALSE)),
          written |-> s.written \cup {start_addr}]

\* mutant: the new header keeps the size new_from_addr gave it
add_free_from_descriptor_unsized(s, desc) ==
    LET start0 == desc.physical_start
        size0 == (desc.number_of_pages * 4096) % Word
        start_addr == IF start0 = 0 THEN start0 + 4096 ELSE start0
        size == IF start0 = 0 THEN saturating_sub(size0, 4096) ELSE size0
    IN
    IF size <= 4096
    THEN s
    ELSE [first_header |-> start_addr,
          heap |-> Put(new_from_addr(s.heap, start_addr), start_addr,
                       Header(s.first_header, 0, FALSE)),
          written |-> s.written \cup {start_addr}]

\* mutant: the new header is linked to itself
add_free_from_descriptor_selflinked(s, desc) ==
    LET start0 == desc.physical_start
        size0 == (desc.number_of_pages * 4096) % Word
        start_addr == IF start0 = 0 THEN start0 + 4096 ELSE start0
        size == IF start0 = 0 THEN saturating_sub(size0, 4096) ELSE size0
    IN
    IF size <= 4096
    THEN s
    ELSE [first_header |-> start_addr,
          heap |-> Put(new_from_addr(s.heap, start_addr), start_addr,
                       Header(start_addr, size, FALSE)),
          written |-> s.written \cup {start_addr}]

\* mutant: a region of exactly one page is kept
add_free_from_descriptor_keeps_page(s, desc) ==
    LET start0 == desc.physical_start
        size0 == (desc.number_of_pages * 4096) % Word
        start_addr == IF start0 = 0 THEN start0 + 4096 ELSE start0
        size == IF start0 = 0 THEN saturating_sub(size0, 4096) ELSE size0
    IN
    IF size < 4096
    THEN s
    ELSE [first_header |-> start_addr,
          heap |-> Put(new_from_addr(s.heap, start_addr), start_addr,
                       Header(s.first_header, size, FALSE)),
          written |-> s.written \cup {start_addr}]

\* add_free_from_descriptor: the state [first_header, heap, written] after it
add_free_from_descriptor(s, desc) ==
    LET start0 == desc.physical_start
        size0 == (desc.number_of_pages * 4096) % Word
        start_addr == IF start0 = 0 THEN start0 + 4096 ELSE start0
        size == IF start0 = 0 THEN saturating_sub(size0, 4096) ELSE size0
    IN
    IF size <= 4096
    THEN s
    ELSE [first_header |-> start_addr,
          heap |-> Put(new_from_addr(s.heap, start_addr), start_addr,
                       Header(s.first_header, size, FALSE)),
          written |-> s.written \cup {start_addr}]

\* the loop of init_with_mmap over the descriptors i..Len(mmap)
RECURSIVE init_from(_, _, _)
init_from(s, mmap, i) ==
    IF i > Len(mmap)
    THEN s
    ELSE IF mmap[i].memory_type # CONVENTIONAL_MEMORY
         THEN init_from(s, mmap, i + 1)
         ELSE init_from(add_free_from_descriptor(s, mmap[i]), mmap, i + 1)

init_with_mmap(h, head, mmap) ==
    init_from([first_header |-> head, heap |-> h, written |-> {}], mmap, 1)

\* -------------------------------------------------------------- actions
AllocInit ==
    /\ first_header = Null
    /\ heap = NoHeap
    /\ phase = "boot"
    /\ panicked = FALSE
    /\ live = {}
    /\ returned = {}
    /\ freed = {}
    /\ last = NoCall
    /\ pre = [first_header |-> Null, heap |-> NoHeap, live |-> {},
              freed |-> {}, last |-> [op |-> "none", ok |-> FALSE]]
    /\ loop = NoLoop
    /\ opsLeft = MaxOps
    /\ memory_map = << >>

\* init_basic_runtime: ALLOCATOR.init_with_mmap(&memory_map), once at boot
InitWithMmap ==
    /\ phase = "boot"
    /\ \E mmap \in MemoryMaps :
         LET s == init_with_mmap(heap, first_header, mmap) IN
         /\ first_header' = s.first_header
         /\ heap' = s.heap
         /\ last' = Call("init", 0, 0, TRUE, Null, Null, s.written)
         /\ memory_map' = mmap
    /\ pre' = Snapshot
    /\ phase' = "run"
    /\ UNCHANGED << panicked, live, returned, freed, loop, opsLeft >>
    /\ UNCHANGED otherVars
    /\ UNCHANGED cellVars
    /\ UNCHANGED hpetVars

\* one call of GlobalAlloc::alloc with the layout (size, align)
AllocCall(size, align) ==
    LET p == alloc_with_options(heap, first_header, size, align)
        lay == [size |-> size, align |-> align]
    IN
    /\ heap' = p.heap
    /\ panicked' = p.panic
    /\ last' = Call("alloc", size, align, p.ok, p.addr, p.block, p.written)
    /\ live' = IF p.ok
               THEN live \cup {[addr |-> p.addr, size |-> size, align |-> align]}
               ELSE live
    /\ returned' = IF p.ok
                   THEN returned \cup {[addr |-> p.addr, size |-> size, align |-> align]}
                   ELSE returned
    /\ loop' = IF live = {} /\ (p.ok \/ loop = lay) THEN lay ELSE NoLoop
    /\ pre' = Snapshot
    /\ opsLeft' = opsLeft - 1
    /\ UNCHANGED << first_header, freed, memory_map >>
    /\ UNCHANGED otherVars
    /\ UNCHANGED hpetVars

\* one call of GlobalAlloc::dealloc with the address ptr
DeallocCall(ptr) ==
    /\ heap' = dealloc(heap, ptr)
    /\ last' = Call("dealloc", 0, 0, TRUE, ptr, from_allocated_regional(ptr),
                    {from_allocated_regional(ptr)})
    /\ live' = {l \in live : l.addr # ptr}
    /\ freed' = freed \cup {ptr}
    /\ loop' = IF \A l \in live : l.addr = ptr THEN loop ELSE NoLoop
    /\ pre' = Snapshot
    /\ opsLeft' = opsLeft - 1
    /\ UNCHANGED << first_header, panicked, returned, memory_map >>
    /\ UNCHANGED otherVars
    /\ UNCHANGED hpetVars

\* GlobalAlloc::alloc
Alloc ==
    /\ phase = "run"
    /\ ~panicked
    /\ opsLeft > 0
    /\ \E size \in AllocSizes, align \in AllocAligns : AllocCall(size, align)
    /\ UNCHANGED phase
    /\ UNCHANGED cellVars
    /\ UNCHANGED hpetVars

\* GlobalAlloc::dealloc, on an address alloc has returned
Dealloc ==
    /\ phase = "run"
    /\ ~panicked
    /\ opsLeft > 0
    /\ \E ptr \in {r.addr : r \in returned} : DeallocCall(ptr)
    /\ UNCHANGED phase
    /\ UNCHANGED cellVars
    /\ UNCHANGED hpetVars

\* ---------------------------------------------- calls outside the protocol
\* calls outside the protocol are explored after at most this many calls,
\* and nothing is explored after one
ProtocolDepth == 2

\* addresses alloc never returned: one header past a live address (inside
\* its data when it is larger than a header) and one header past a free
\* header of the chain
ForeignPtrs ==
    ({l.addr + HEADER_SIZE : l \in live} \cup {a + HEADER_SIZE : a \in DOMAIN heap})
        \ {r.addr : r \in returned}

\* GlobalAlloc::dealloc on an address alloc never returned: the flag of
\* whatever lies HEADER_SIZE before it is cleared
DeallocForeign ==
    /\ phase = "run"
    /\ ~panicked
    /\ opsLeft > 0
    /\ MaxOps - opsLeft <= ProtocolDepth
    /\ \E ptr \in ForeignPtrs :
         /\ heap' = IF from_allocated_regional(ptr) \in DOMAIN heap
                    THEN dealloc(heap, ptr)
                    ELSE heap
         /\ last' = Call("dealloc_foreign", 0, 0, TRUE, ptr,
                         from_allocated_regional(ptr), {from_allocated_regional(ptr)})
    /\ pre' = Snapshot
    /\ phase' = "foreign"
    /\ opsLeft' = opsLeft - 1
    /\ UNCHANGED << first_header, panicked, live, returned, freed, loop, memory_map >>
    /\ UNCHANGED otherVars
    /\ UNCHANGED cellVars
    /\ UNCHANGED hpetVars

\* ALLOCATOR.init_with_mmap called once more after the chain was seeded
Reinit ==
    /\ phase = "run"
    /\ ~panicked
    /\ opsLeft > 0
    /\ MaxOps - opsLeft <= ProtocolDepth
    /\ \E mmap \in MemoryMaps :
         LET s == init_with_mmap(heap, first_header, mmap) IN
         /\ first_header' = s.first_header
         /\ heap' = s.heap
         /\ last' = Call("reinit", 0, 0, TRUE, Null, Null, s.written)
    /\ pre' = Snapshot
    /\ phase' = "reinit"
    /\ opsLeft' = opsLeft - 1
    /\ UNCHANGED << panicked, live, returned, freed, loop, memory_map >>
    /\ UNCHANGED otherVars
    /\ UNCHANGED cellVars
    /\ UNCHANGED hpetVars

\* ------------------------------------------------- the 1 MiB scenario
\* largest page number at which the scenario's region starts
MaxScenarioStart == 24

ScenarioPages == (1024 * 1024) \div PAGE_SIZE

\* a memory map with a single usable region of 1 MiB
ScenarioMaps ==
    {<< Desc(k * PAGE_SIZE, ScenarioPages, CONVENTIONAL_MEMORY) >> :
        k \in 0..MaxScenarioStart}

\* init_with_mmap on the single region
ScenarioInit ==
    /\ phase = "boot"
    /\ \E mmap \in ScenarioMaps :
         LET s == init_with_mmap(heap, first_header, mmap) IN
         /\ first_header' = s.first_header
         /\ heap' = s.heap
         /\ last' = Call("init", 0, 0, TRUE, Null, Null, s.written)
         /\ memory_map' = mmap
    /\ pre' = Snapshot
    /\ phase' = "scenario"
    /\ UNCHANGED << panicked, live, returned, freed, loop, opsLeft >>
    /\ UNCHANGED otherVars
    /\ UNCHANGED cellVars
    /\ UNCHANGED hpetVars

\* alloc(Layout(128, 128))
ScenarioFirst ==
    /\ phase = "scenario"
    /\ ~panicked
    /\ AllocCall(128, 128)
    /\ phase' = "first"
    /\ UNCHANGED cellVars
    /\ UNCHANGED hpetVars

\* alloc(Layout(6000, 64))
ScenarioSecond ==
    /\ phase = "first"
    /\ ~panicked
    /\ AllocCall(6000, 64)
    /\ phase' = "second"
    /\ UNCHANGED cellVars
    /\ UNCHANGED hpetVars

\* dealloc of the address the first alloc returned
ScenarioFree ==
    /\ phase = "second"
    /\ ~panicked
    /\ \E r \in returned :
         /\ r.size = 128
         /\ DeallocCall(r.addr)
    /\ phase' = "freed"
    /\ UNCHANGED cellVars
    /\ UNCHANGED hpetVars

\* alloc(Layout(64, 64))
ScenarioFinal ==
    /\ phase = "freed"
    /\ ~panicked
    /\ AllocCall(64, 64)
    /\ phase' = "final"
    /\ UNCHANGED cellVars
    /\ UNCHANGED hpetVars

\* ------------------------------------------- provide on one tight block
\* largest size of the block, in units of HEADER_SIZE
MaxTightUnits == 12

\* a free block of the chain: its start and its size are multiples of
\* HEADER_SIZE (region ends are page-aligned and every carve is made of
\* multiples of HEADER_SIZE)
TightStarts == {PAGE_SIZE + HEADER_SIZE * k : k \in 0..3}

TightBlockSizes == {HEADER_SIZE * k : k \in 1..MaxTightUnits}

TightSizes == {1, 32, 33, 64, 100}

TightAligns == {1, 16, 32, 64, 128}

\* the chain is a single free block
ProvideInit ==
    /\ \E start \in TightStarts, size \in TightBlockSizes :
         /\ first_header = start
         /\ heap = Put(NoHeap, start, Header(Null, size, FALSE))
         /\ pre = [first_header |-> start,
                   heap |-> Put(NoHeap, start, Header(Null, size, FALSE)),
                   live |-> {}, freed |-> {}, last |-> [op |-> "none", ok |-> FALSE]]
    /\ phase = "tight"
    /\ panicked = FALSE
    /\ live = {}
    /\ returned = {}
    /\ freed = {}
    /\ last = NoCall
    /\ loop = NoLoop
    /\ opsLeft = MaxOps
    /\ memory_map = << >>

\* alloc on that block
ProvideCall ==
    /\ phase = "tight"
    /\ \E size \in TightSizes, align \in TightAligns : AllocCall(size, align)
    /\ phase' = "provided"
    /\ UNCHANGED cellVars
    /\ UNCHANGED hpetVars

\* ------------------------------------------- the borrow of first_header
IdleTask ==
    [pc |-> "idle", i |-> 0, start |-> 0, size |-> 0, align |-> 0,
     prev_last |-> Null]

Access(op, by, held, during, crashed, written) ==
    [op |-> op, by |-> by, held |-> held, during |-> during,
     crashed |-> crashed, written |-> written]

NoAccess == Access("none", "none", FALSE, "idle", FALSE, {})

CellInit ==
    /\ borrow = "none"
    /\ task = IdleTask
    /\ access = NoAccess
    /\ linked = {}

\* calls explored in the step-by-step runs
CellDepth == 3

\* the header addresses reachable from head
RECURSIVE Reach(_, _)
Reach(h, head) ==
    IF head = Null THEN {} ELSE {head} \cup Reach(h, h[head].next_header)

\* RefCell::borrow_mut by who: panics when the cell is already borrowed
borrow_mut(b, who) ==
    IF b = "none"
    THEN [ok |-> TRUE, borrow |-> who]
    ELSE [ok |-> FALSE, borrow |-> b]

\* add_free_from_descriptor: start and size of the region after the skip
region_of(desc) ==
    LET start0 == desc.physical_start
        size0 == (desc.number_of_pages * 4096) % Word
    IN
    [start_addr |-> IF start0 = 0 THEN start0 + 4096 ELSE start0,
     size |-> IF start0 = 0 THEN saturating_sub(size0, 4096) ELSE size0]

\* init_basic_runtime calls init_with_mmap: the loop starts
CellBoot ==
    /\ phase = "boot"
    /\ task.pc = "idle"
    /\ \E mmap \in MemoryMaps : memory_map' = mmap
    /\ phase' = "init"
    /\ task' = [IdleTask EXCEPT !.pc = "desc", !.i = 1]
    /\ UNCHANGED << first_header, heap, panicked, live, returned, freed, last,
                    pre, loop, opsLeft >>
    /\ UNCHANGED << borrow, access, linked >>
    /\ UNCHANGED otherVars
    /\ UNCHANGED hpetVars

\* init_with_mmap: a descriptor that is passed over, or the end of the loop
CellSkip ==
    /\ task.pc = "desc"
    /\ IF task.i > Len(memory_map)
       THEN /\ task' = IdleTask
            /\ phase' = "run"
       ELSE /\ \/ memory_map[task.i].memory_type # CONVENTIONAL_MEMORY
               \/ region_of(memory_map[task.i]).size <= 4096
            /\ task' = [task EXCEPT !.i = @ + 1]
            /\ UNCHANGED phase
    /\ UNCHANGED << first_header, heap, panicked, live, returned, freed, last,
                    pre, loop, opsLeft, memory_map >>
    /\ UNCHANGED << borrow, access, linked >>
    /\ UNCHANGED otherVars
    /\ UNCHANGED hpetVars

\* add_free_from_descriptor: the header is written at the region's start
CellBuild ==
    /\ task.pc = "desc"
    /\ task.i <= Len(memory_map)
    /\ memory_map[task.i].memory_type = CONVENTIONAL_MEMORY
    /\ LET r == region_of(memory_map[task.i]) IN
       /\ r.size > 4096
       /\ heap' = Put(new_from_addr(heap, r.start_addr), r.start_addr,
                      Header(Null, r.size, FALSE))
       /\ task' = [task EXCEPT !.pc = "built", !.start = r.start_addr,
                               !.size = r.size]
    /\ UNCHANGED << first_header, phase, panicked, live, returned, freed, last,
                    pre, loop, opsLeft, memory_map >>
    /\ UNCHANGED << borrow, access, linked >>
    /\ UNCHANGED otherVars
    /\ UNCHANGED hpetVars

\* add_free_from_descriptor: borrow_mut, then replace puts the header at the head
CellReplace ==
    /\ task.pc = "built"
    /\ LET b == borrow_mut(borrow, "main") IN
       /\ b.ok
       /\ borrow' = b.borrow
       /\ access' = Access("replace", "main", b.borrow = "main", task.pc, FALSE,
                           {task.start})
    /\ first_header' = task.start
    /\ task' = [task EXCEPT !.pc = "replaced", !.prev_last = first_header]
    /\ linked' = linked \cup Reach(heap, task.start)
    /\ UNCHANGED << heap, phase, panicked, live, returned, freed, last,
                    pre, loop, opsLeft, memory_map >>
    /\ UNCHANGED otherVars
    /\ UNCHANGED hpetVars

\* add_free_from_descriptor: drop(first_header)
CellDrop ==
    /\ task.pc = "replaced"
    /\ borrow' = "none"
    /\ task' = [task EXCEPT !.pc = "dropped"]
    /\ UNCHANGED allocVars
    /\ UNCHANGED << access, linked >>
    /\ UNCHANGED otherVars
    /\ UNCHANGED hpetVars

\* add_free_from_descriptor: borrow_mut again, the head's next_header is set
CellLink ==
    /\ task.pc = "dropped"
    /\ LET b == borrow_mut(borrow, "main") IN
       /\ b.ok
       /\ borrow' = b.borrow
       /\ access' = Access("link", "main", b.borrow = "main", task.pc, FALSE,
                           {first_header})
    /\ heap' = [heap EXCEPT ![first_header].next_header = task.prev_last]
    /\ task' = [task EXCEPT !.pc = "linked"]
    /\ linked' = linked \cup Reach(heap', first_header)
    /\ UNCHANGED << first_header, phase, panicked, live, returned, freed, last,
                    pre, loop, opsLeft, memory_map >>
    /\ UNCHANGED otherVars
    /\ UNCHANGED hpetVars

\* add_free_from_descriptor returns: the second borrow ends
CellReturn ==
    /\ task.pc = "linked"
    /\ borrow' = "none"
    /\ task' = [IdleTask EXCEPT !.pc = "desc", !.i = task.i + 1]
    /\ UNCHANGED allocVars
    /\ UNCHANGED << access, linked >>
    /\ UNCHANGED otherVars
    /\ UNCHANGED hpetVars

\* alloc_with_options: borrow_mut, before the loop
CellAllocBorrow ==
    /\ phase = "run"
    /\ task.pc = "idle"
    /\ ~panicked
    /\ opsLeft > 0
    /\ MaxOps - opsLeft < CellDepth
    /\ \E size \in AllocSizes, align \in AllocAligns :
         task' = [IdleTask EXCEPT !.pc = "alloc", !.size = size, !.align = align]
    /\ LET b == borrow_mut(borrow, "main") IN
       /\ b.ok
       /\ borrow' = b.borrow
    /\ UNCHANGED allocVars
    /\ UNCHANGED << access, linked >>
    /\ UNCHANGED otherVars
    /\ UNCHANGED hpetVars

\* alloc_with_options: the loop, and the return that ends the borrow
CellAllocFinish ==
    /\ task.pc = "alloc"
    /\ AllocCall(task.size, task.align)
    /\ access' = Access("alloc", "main", borrow = "main", task.pc, FALSE,
                        last'.written)
    /\ borrow' = "none"
    /\ task' = IdleTask
    /\ linked' = linked \cup Reach(heap', first_header)
    /\ UNCHANGED phase

\* GlobalAlloc::dealloc in the flow: no borrow is taken
CellDealloc ==
    /\ phase = "run"
    /\ task.pc = "idle"
    /\ ~panicked
    /\ opsLeft > 0
    /\ MaxOps - opsLeft < CellDepth
    /\ \E ptr \in {r.addr : r \in returned} : DeallocCall(ptr)
    /\ access' = Access("dealloc", "main", borrow = "main", task.pc, FALSE,
                        last'.written)
    /\ UNCHANGED << phase, borrow, task, linked >>

\* GlobalAlloc::alloc from an interrupt handler, run to its end inside the flow
IrqAlloc ==
    /\ ~panicked
    /\ opsLeft > 0
    /\ MaxOps - opsLeft < CellDepth
    /\ \E size \in AllocSizes, align \in AllocAligns :
         LET b == borrow_mut(borrow, "irq") IN
         IF b.ok
         THEN /\ AllocCall(size, align)
              /\ access' = Access("alloc", "irq", b.borrow = "irq", task.pc, FALSE,
                                  last'.written)
              /\ linked' = linked \cup Reach(heap', first_header)
         ELSE /\ panicked' = TRUE
              /\ last' = Call("alloc", size, align, FALSE, Null, Null, {})
              /\ access' = Access("alloc", "irq", FALSE, task.pc, TRUE, {})
              /\ pre' = Snapshot
              /\ opsLeft' = opsLeft - 1
              /\ UNCHANGED << first_header, heap, live, returned, freed, loop,
                              memory_map, linked >>
              /\ UNCHANGED otherVars
              /\ UNCHANGED hpetVars
    /\ UNCHANGED << phase, borrow, task >>

\* GlobalAlloc::dealloc from an interrupt handler
IrqDealloc ==
    /\ ~panicked
    /\ opsLeft > 0
    /\ MaxOps - opsLeft < CellDepth
    /\ \E ptr \in {r.addr : r \in returned} : DeallocCall(ptr)
    /\ access' = Access("dealloc", "irq", borrow = "irq", task.pc, FALSE,
                        last'.written)
    /\ UNCHANGED << phase, borrow, task, linked >>

\* ------------------------------------- round_up_to_nearest_pow2 on its own
\* largest argument of the dense range of arguments tried
MaxSmallV == 64

\* the arguments tried: a dense range, every power of two with its
\* neighbours, and the largest word
Pow2Inputs ==
    (0..MaxSmallV)
    \cup {x \in UNION {{2 ^ k - 1, 2 ^ k, 2 ^ k + 1} : k \in 0..(WordBits - 1)} : x < Word}
    \cup {Word - 1}

NoResult == [ok |-> FALSE, val |-> 0]

PwIdle == [v |-> 0, done |-> FALSE, res |-> NoResult]

PwInit == pw \in {[v |-> x, done |-> FALSE, res |-> NoResult] : x \in Pow2Inputs}

\* a call of round_up_to_nearest_pow2(pw.v)
RoundUp ==
    /\ ~pw.done
    /\ pw' = [pw EXCEPT !.done = TRUE, !.res = round_up_to_nearest_pow2(pw.v)]
    /\ UNCHANGED << locked, taker_line_num, proc, mxlast, mxprev >>
    /\ UNCHANGED allocVars
    /\ UNCHANGED cellVars
    /\ UNCHANGED hpetVars

\* ---------------------------------------------------------------- Mutex
\* number of concurrent callers of the Mutex
NumProcs == 2
\* attempts lock() makes before it panics (100000 in the build)
SpinBudget == 2

Procs == 1..NumProcs

\* the source lines lock() is called from (Location::caller().line())
CallLines == {51, 52, 55}

\* the calls that enter lock(): those of hpet.rs, and one through
\* under_locked, which has no caller in the repository and is given the
\* line of under_locked itself
CallSites ==
    {[line |-> l, via |-> "lock"] : l \in CallLines}
        \cup {[line |-> 127, via |-> "under_locked"]}

Proc(pc, tries, line, via, res) ==
    [pc |-> pc, tries |-> tries, line |-> line, via |-> via, res |-> res]

IdleProc == Proc("idle", 0, 0, "none", "none")

\* seen: the taker_line_num a panic reports; holder: the line the guard
\* live at that moment was taken at, 0 when there is none
Event(ev, p, first, won, was, guards, res) ==
    [ev |-> ev, p |-> p, first |-> first, won |-> won, was |-> was,
     guards |-> guards, res |-> res, seen |-> 0, holder |-> 0]

NoEvent == Event("none", 0, FALSE, FALSE, FALSE, 0, "none")

\* the callers that own a MutexGuard, or have won the flag and are about to;
\* a caller inside a nested lock() still owns the guard of its first one
Guards ==
    {p \in Procs :
        proc[p].pc \in {"won", "held", "ran", "nested", "nested_panic", "double"}}

\* the line the live guard was taken at, 0 when no guard is live
HolderLine ==
    IF Guards = {} THEN 0 ELSE proc[CHOOSE p \in Guards : TRUE].line

MutexInit ==
    /\ locked = FALSE
    /\ taker_line_num = 0
    /\ proc = [p \in Procs |-> IdleProc]
    /\ mxlast = NoEvent
    /\ mxprev = NoEvent

\* mutant: the flag is stored without being compared
try_lock_blind(l) == [ok |-> TRUE, locked |-> TRUE]

\* Mutex::try_lock: compare_exchange(false, true) on the flag l
try_lock(l) ==
    IF l = FALSE
    THEN [ok |-> TRUE, locked |-> TRUE]
    ELSE [ok |-> FALSE, locked |-> l]

\* mutant: the guard goes without storing to the flag
MutexGuard_drop_forgets(l) == l

\* MutexGuard::drop: locked.store(false)
MutexGuard_drop(l) == FALSE

\* a caller enters lock(), directly or through under_locked
LockCall ==
    \E p \in Procs, site \in CallSites :
        /\ proc[p].pc = "idle"
        /\ proc' = [proc EXCEPT ![p] = Proc("try", 0, site.line, site.via, "none")]
        /\ UNCHANGED << pw, locked, taker_line_num, mxlast, mxprev >>
        /\ UNCHANGED allocVars
        /\ UNCHANGED cellVars
        /\ UNCHANGED hpetVars

\* one iteration of the loop of lock(): try_lock
TryLock ==
    \E p \in Procs :
        /\ proc[p].pc = "try"
        /\ proc[p].tries < SpinBudget
        /\ LET r == try_lock(locked) IN
           /\ locked' = r.locked
           /\ proc' = [proc EXCEPT ![p].pc = IF r.ok THEN "won" ELSE "try",
                                   ![p].tries = IF r.ok THEN @ ELSE @ + 1]
           /\ mxlast' = Event("try", p, proc[p].tries = 0, r.ok, locked,
                              Cardinality(Guards), "none")
        /\ mxprev' = mxlast
        /\ UNCHANGED << pw, taker_line_num >>
        /\ UNCHANGED allocVars
        /\ UNCHANGED cellVars
        /\ UNCHANGED hpetVars

\* try_lock after the flag was won: the line is stored and the guard made
TakerStore ==
    \E p \in Procs :
        /\ proc[p].pc = "won"
        /\ taker_line_num' = proc[p].line
        /\ proc' = [proc EXCEPT ![p].pc = "held"]
        /\ UNCHANGED << pw, locked, mxlast, mxprev >>
        /\ UNCHANGED allocVars
        /\ UNCHANGED cellVars
        /\ UNCHANGED hpetVars

\* mutant: lock() gives up after its first failed attempt
LockPanic_early ==
    \E p \in Procs :
        /\ proc[p].pc = "try"
        /\ proc[p].tries >= 1
        /\ proc' = [proc EXCEPT ![p].pc = "panic"]
        /\ mxlast' = [Event("panic", p, FALSE, FALSE, locked, Cardinality(Guards),
                            "none")
                         EXCEPT !.seen = taker_line_num, !.holder = HolderLine]
        /\ mxprev' = mxlast
        /\ UNCHANGED << pw, locked, taker_line_num >>
        /\ UNCHANGED allocVars
        /\ UNCHANGED cellVars
        /\ UNCHANGED hpetVars

\* lock() after the loop ran out: panic
LockPanic ==
    \E p \in Procs :
        /\ proc[p].pc = "try"
        /\ proc[p].tries = SpinBudget
        /\ proc' = [proc EXCEPT ![p].pc = "panic"]
        /\ mxlast' = [Event("panic", p, FALSE, FALSE, locked, Cardinality(Guards),
                            "none")
                         EXCEPT !.seen = taker_line_num, !.holder = HolderLine]
        /\ mxprev' = mxlast
        /\ UNCHANGED << pw, locked, taker_line_num >>
        /\ UNCHANGED allocVars
        /\ UNCHANGED cellVars
        /\ UNCHANGED hpetVars

\* under_locked: the closure runs on the guarded value and returns Ok or Err
Closure ==
    \E p \in Procs, res \in {"Ok", "Err"} :
        /\ proc[p].pc = "held"
        /\ proc[p].via = "under_locked"
        /\ proc' = [proc EXCEPT ![p].pc = "ran", ![p].res = res]
        /\ UNCHANGED << pw, locked, taker_line_num, mxlast, mxprev >>
        /\ UNCHANGED allocVars
        /\ UNCHANGED cellVars
        /\ UNCHANGED hpetVars

\* under_locked returns: its guard goes out of scope
UnderLockedReturn ==
    \E p \in Procs :
        /\ proc[p].pc = "ran"
        /\ locked' = MutexGuard_drop(locked)
        /\ proc' = [proc EXCEPT ![p] = IdleProc]
        /\ mxlast' = Event("return", p, FALSE, FALSE, locked, Cardinality(Guards),
                           proc[p].res)
        /\ mxprev' = mxlast
        /\ UNCHANGED << pw, taker_line_num >>
        /\ UNCHANGED allocVars
        /\ UNCHANGED cellVars
        /\ UNCHANGED hpetVars

\* the guard lock() returned goes out of scope
GuardDrop ==
    \E p \in Procs :
        /\ proc[p].pc = "held"
        /\ proc[p].via = "lock"
        /\ locked' = MutexGuard_drop(locked)
        /\ proc' = [proc EXCEPT ![p] = IdleProc]
        /\ mxlast' = Event("drop", p, FALSE, FALSE, locked, Cardinality(Guards), "none")
        /\ mxprev' = mxlast
        /\ UNCHANGED << pw, taker_line_num >>
        /\ UNCHANGED allocVars
        /\ UNCHANGED cellVars
        /\ UNCHANGED hpetVars

\* ----------------------------------------------------- nested lock()
\* the owner of a live guard calls lock() again on the same Mutex
Reenter ==
    \E p \in Procs :
        /\ proc[p].pc = "held"
        /\ proc' = [proc EXCEPT ![p].pc = "nested", ![p].tries = 0]
        /\ UNCHANGED << pw, locked, taker_line_num, mxlast, mxprev >>
        /\ UNCHANGED allocVars
        /\ UNCHANGED cellVars
        /\ UNCHANGED hpetVars

\* one iteration of the loop of the nested lock(): try_lock
NestedTry ==
    \E p \in Procs :
        /\ proc[p].pc = "nested"
        /\ proc[p].tries < SpinBudget
        /\ LET r == try_lock(locked) IN
           /\ locked' = r.locked
           /\ proc' = [proc EXCEPT ![p].pc = IF r.ok THEN "double" ELSE "nested",
                                   ![p].tries = IF r.ok THEN @ ELSE @ + 1]
           /\ mxlast' = Event("retry", p, proc[p].tries = 0, r.ok, locked,
                              Cardinality(Guards), "none")
        /\ mxprev' = mxlast
        /\ UNCHANGED << pw, taker_line_num >>
        /\ UNCHANGED allocVars
        /\ UNCHANGED cellVars
        /\ UNCHANGED hpetVars

\* the nested lock() after its loop ran out: panic
NestedPanic ==
    \E p \in Procs :
        /\ proc[p].pc = "nested"
        /\ proc[p].tries = SpinBudget
        /\ proc' = [proc EXCEPT ![p].pc = "nested_panic"]
        /\ mxlast' = [Event("panic", p, FALSE, FALSE, locked, Cardinality(Guards),
                            "none")
                         EXCEPT !.seen = taker_line_num, !.holder = HolderLine]
        /\ mxprev' = mxlast
        /\ UNCHANGED << pw, locked, taker_line_num >>
        /\ UNCHANGED allocVars
        /\ UNCHANGED cellVars
        /\ UNCHANGED hpetVars

\* ----------------------------------------------------------------- HPET
\* width of the model's u64 (64 in the build)
TimerBits == 30
\* the largest value the main counter reaches in the runs
MaxCounter == 2
\* nanoseconds per second, the factor of global_timestamp
NanosPerSec == 1000000000

\* u64::MAX
MaxU64 == (2 ^ (TimerBits - 1) - 1) * 2 + 1

\* the frequencies Hpet::new computes as 10^15 / counter_clk_period, for
\* periods of 100 ns and 69.841279 ns
Frequencies == {10000000, 14318179}

\* an Hpet: registers names the device it was made for
Hpet(registers, frequency) == [registers |-> registers, frequency |-> frequency]

\* Option<Hpet>::None
NoHpet == Hpet(0, 0)

\* u64 addition: the wrapped sum, and whether it overflowed
overflowing_add(a, b) ==
    IF a > MaxU64 - b
    THEN [v |-> a - (MaxU64 - b) - 1, overflow |-> TRUE]
    ELSE [v |-> a + b, overflow |-> FALSE]

\* u64 multiplication a * b, as a additions of b
RECURSIVE overflowing_mul(_, _)
overflowing_mul(a, b) ==
    IF a = 0
    THEN [v |-> 0, overflow |-> FALSE]
    ELSE LET r == overflowing_mul(a - 1, b)
             t == overflowing_add(r.v, b) IN
         [v |-> t.v, overflow |-> r.overflow \/ t.overflow]

\* global_timestamp with the guard held: the nanoseconds of the reading,
\* and whether the multiplication overflowed
global_timestamp(h, counter) ==
    IF h # NoHpet
    THEN LET m == overflowing_mul(counter, NanosPerSec) IN
         [ns |-> m.v \div h.frequency, overflow |-> m.overflow]
    ELSE [ns |-> 0, overflow |-> FALSE]

\* at: the statement the caller locks for; entered: a timer was stored
\* when its set_global_hpet call began
Caller(pc, at, tries, hpet, entered) ==
    [pc |-> pc, at |-> at, tries |-> tries, hpet |-> hpet, entered |-> entered]

IdleCaller == Caller("idle", "none", 0, NoHpet, FALSE)

\* the line of hpet.rs each HPET.lock() is called from
LockLine(at) == CASE at = "check" -> 51 [] at = "store" -> 52 [] OTHER -> 55

HpetEvent(ev, p, before, overflow) ==
    [ev |-> ev, p |-> p, before |-> before, overflow |-> overflow]

NoHpetEvent == HpetEvent("none", 0, NoHpet, FALSE)

HpetInit ==
    /\ HPET = NoHpet
    /\ main_counter = 0
    /\ caller = [p \in Procs |-> IdleCaller]
    /\ stored = << >>
    /\ stamps = << >>
    /\ hplast = NoHpetEvent
    /\ halted = FALSE

\* the hardware advances the main counter
Tick ==
    /\ ~halted
    /\ main_counter < MaxCounter
    /\ main_counter' = main_counter + 1
    /\ UNCHANGED << HPET, caller, stored, stamps, hplast, halted >>
    /\ UNCHANGED allocVars
    /\ UNCHANGED otherVars
    /\ UNCHANGED cellVars

\* set_global_hpet(hpet) is entered
SetCall ==
    \E p \in Procs, f \in Frequencies :
        /\ ~halted
        /\ caller[p].pc = "idle"
        /\ caller' = [caller EXCEPT
                        ![p] = Caller("lock", "check", 0, Hpet(p, f), HPET # NoHpet)]
        /\ UNCHANGED << HPET, main_counter, stored, stamps, hplast, halted >>
        /\ UNCHANGED allocVars
        /\ UNCHANGED otherVars
        /\ UNCHANGED cellVars

\* global_timestamp() is entered
TimestampCall ==
    \E p \in Procs :
        /\ ~halted
        /\ caller[p].pc = "idle"
        /\ caller' = [caller EXCEPT
                        ![p] = Caller("lock", "stamp", 0, NoHpet, FALSE)]
        /\ UNCHANGED << HPET, main_counter, stored, stamps, hplast, halted >>
        /\ UNCHANGED allocVars
        /\ UNCHANGED otherVars
        /\ UNCHANGED cellVars

\* one iteration of the loop of HPET.lock(); the flag and the line are
\* taken in one step, their separation is what SpecMutex explores
HpetLock ==
    \E p \in Procs :
        /\ ~halted
        /\ caller[p].pc = "lock"
        /\ caller[p].tries < SpinBudget
        /\ LET r == try_lock(locked) IN
           /\ locked' = r.locked
           /\ taker_line_num' = IF r.ok THEN LockLine(caller[p].at) ELSE taker_line_num
           /\ caller' = [caller EXCEPT ![p].pc = IF r.ok THEN "held" ELSE "lock",
                                       ![p].tries = IF r.ok THEN @ ELSE @ + 1]
        /\ UNCHANGED << HPET, main_counter, stored, stamps, hplast, halted >>
        /\ UNCHANGED << pw, proc, mxlast, mxprev >>
        /\ UNCHANGED allocVars
        /\ UNCHANGED cellVars

\* HPET.lock() after its loop ran out: panic
HpetLockPanic ==
    \E p \in Procs :
        /\ ~halted
        /\ caller[p].pc = "lock"
        /\ caller[p].tries = SpinBudget
        /\ caller' = [caller EXCEPT ![p].pc = "aborted"]
        /\ hplast' = HpetEvent("lock_panic", p, HPET, FALSE)
        /\ halted' = TRUE
        /\ UNCHANGED << HPET, main_counter, stored, stamps >>
        /\ UNCHANGED allocVars
        /\ UNCHANGED otherVars
        /\ UNCHANGED cellVars

\* assert!(HPET.lock().is_none()): the check under its guard, the guard's
\* drop, then the panic when a timer is stored
SetCheck ==
    \E p \in Procs :
        /\ ~halted
        /\ caller[p].pc = "held"
        /\ caller[p].at = "check"
        /\ locked' = MutexGuard_drop(locked)
        /\ IF HPET = NoHpet
           THEN /\ caller' = [caller EXCEPT ![p].pc = "lock", ![p].at = "store",
                                           ![p].tries = 0]
                /\ hplast' = HpetEvent("check", p, HPET, FALSE)
                /\ halted' = halted
           ELSE /\ caller' = [caller EXCEPT ![p].pc = "aborted"]
                /\ hplast' = HpetEvent("abort", p, HPET, FALSE)
                /\ halted' = TRUE
        /\ UNCHANGED << HPET, main_counter, stored, stamps >>
        /\ UNCHANGED << pw, taker_line_num, proc, mxlast, mxprev >>
        /\ UNCHANGED allocVars
        /\ UNCHANGED cellVars

\* *HPET.lock() = Some(hpet): the store under a second guard, and its drop
SetStore ==
    \E p \in Procs :
        /\ ~halted
        /\ caller[p].pc = "held"
        /\ caller[p].at = "store"
        /\ HPET' = caller[p].hpet
        /\ stored' = Append(stored, caller[p].hpet)
        /\ locked' = MutexGuard_drop(locked)
        /\ caller' = [caller EXCEPT ![p] = IdleCaller]
        /\ hplast' = HpetEvent("store", p, HPET, FALSE)
        /\ UNCHANGED << main_counter, stamps, halted >>
        /\ UNCHANGED << pw, taker_line_num, proc, mxlast, mxprev >>
        /\ UNCHANGED allocVars
        /\ UNCHANGED cellVars

\* the body of global_timestamp under its guard. An overflowing
\* multiplication panics in a build with overflow checks and wraps in one
\* without.
Timestamp ==
    \E p \in Procs, checks \in BOOLEAN :
        /\ ~halted
        /\ caller[p].pc = "held"
        /\ caller[p].at = "stamp"
        /\ LET r == global_timestamp(HPET, main_counter) IN
           IF r.overflow /\ checks
           THEN /\ caller' = [caller EXCEPT ![p].pc = "aborted"]
                /\ hplast' = HpetEvent("overflow_panic", p, HPET, TRUE)
                /\ halted' = TRUE
                /\ UNCHANGED << locked, stamps >>
           ELSE /\ stamps' =
                    LET new == [counter |-> main_counter, ns |-> r.ns, hpet |-> HPET] IN
                    IF Len(stamps) = 2 THEN << stamps[2], new >>
                                       ELSE Append(stamps, new)
                /\ locked' = MutexGuard_drop(locked)
                /\ caller' = [caller EXCEPT ![p] = IdleCaller]
                /\ hplast' = HpetEvent("timestamp", p, HPET, r.overflow)
                /\ halted' = halted
        /\ UNCHANGED << HPET, main_counter, stored >>
        /\ UNCHANGED << pw, taker_line_num, proc, mxlast, mxprev >>
        /\ UNCHANGED allocVars
        /\ UNCHANGED cellVars

\* -------------------------------------------------------- specifications
Init == AllocInit /\ pw = PwIdle /\ MutexInit /\ CellInit /\ HpetInit

Next == InitWithMmap \/ Alloc \/ Dealloc

\* the allocator: initialised once, then allocate and deallocate calls
Spec == Init /\ [][Next]_vars

\* the allocator with callers that break the protocol
ProtocolNext == Next \/ DeallocForeign \/ Reinit

SpecProtocol == Init /\ [][ProtocolNext]_vars

\* the scenario, for every start of the region
ScenarioNext ==
    ScenarioInit \/ ScenarioFirst \/ ScenarioSecond \/ ScenarioFree \/ ScenarioFinal

SpecScenario == Init /\ [][ScenarioNext]_vars

\* round_up_to_nearest_pow2 applied to each argument
Pow2Next == RoundUp

Pow2Init == AllocInit /\ PwInit /\ MutexInit /\ CellInit /\ HpetInit

SpecPow2 == Pow2Init /\ [][Pow2Next]_vars

\* the Mutex under concurrent callers
MutexNext ==
    LockCall \/ TryLock \/ TakerStore \/ LockPanic \/ Closure
        \/ UnderLockedReturn \/ GuardDrop

SpecMutex == Init /\ [][MutexNext]_vars

ProvideNext == ProvideCall

ProvideBoot == ProvideInit /\ pw = PwIdle /\ MutexInit /\ CellInit /\ HpetInit

SpecProvide == ProvideBoot /\ [][ProvideNext]_vars

\* the allocator step by step, with interrupt handlers that allocate and free
CellNext ==
    \/ CellBoot \/ CellSkip \/ CellBuild \/ CellReplace \/ CellDrop
    \/ CellLink \/ CellReturn
    \/ CellAllocBorrow \/ CellAllocFinish \/ CellDealloc
    \/ IrqAlloc \/ IrqDealloc

SpecCell == Init /\ [][CellNext]_vars

\* the callers of the Mutex, a guard's owner locking again among them
ReentrantNext == MutexNext \/ Reenter \/ NestedTry \/ NestedPanic

SpecReentrant == Init /\ [][ReentrantNext]_vars

\* the global timer: callers that set it and read it while the counter runs
HpetNext ==
    \/ Tick \/ SetCall \/ TimestampCall \/ HpetLock \/ HpetLockPanic
    \/ SetCheck \/ SetStore \/ Timestamp

SpecHpet == Init /\ [][HpetNext]_vars

\* ------------------------------------------------- vocabulary of claims
\* the headers linked from a, in chain order
RECURSIVE ChainFrom(_, _)
ChainFrom(h, a) == IF a = Null THEN << >> ELSE << a >> \o ChainFrom(h, h[a].next_header)

\* the smallest power of two that is at least v (v >= 1)
RECURSIVE SmallestPow2From(_, _)
SmallestPow2From(p, v) == IF p >= v THEN p ELSE SmallestPow2From(2 * p, v)

\* the rounded size the specification gives a request of reqSize bytes
RoundedSize(reqSize) == Max(SmallestPow2From(1, reqSize), HEADER_SIZE)

\* the byte ranges [a1, a1 + size1) and [a2, a2 + size2) do not meet
Apart(a1, size1, a2, size2) == a1 + size1 <= a2 \/ a2 + size2 <= a1

Allocated == last.op = "alloc" /\ last.ok

\* the headers whose fields differ from what they were before the last call
Changed ==
    {a \in DOMAIN heap : a \notin DOMAIN pre.heap \/ heap[a] # pre.heap[a]}

\* -------------------------------------------------------------------- C1
\* C1: no two live allocations overlap: the byte ranges [a, a + size) of
\* any two allocations that were returned and not yet deallocated are
\* disjoint, and an address is never handed out while it is still live.
C1_NoOverlap ==
    /\ \A l1, l2 \in live : l1 # l2 => Apart(l1.addr, l1.size, l2.addr, l2.size)
    /\ Allocated => \A l \in pre.live : Apart(l.addr, l.size, last.addr, last.size)

C1_Witness ==
    /\ Allocated
    /\ freed # {}
    /\ Cardinality(live) >= 2
    /\ Cardinality(last.written) = 3

\* -------------------------------------------------------------------- C2
\* C2: every successful allocate(size, align) returns an address that is a
\* multiple of align and is not zero.
C2_Aligned == Allocated => last.addr % last.align = 0 /\ last.addr # 0

C2_Witness ==
    /\ Allocated
    /\ last.align = 4096
    /\ pre.live # {}
    /\ pre.freed # {}

\* -------------------------------------------------------------------- C3
\* C3: no call writes a header, or changes a header field, at an address
\* inside the byte range of an allocation that was live when it was made.
C3_LiveDataUntouched ==
    \A l \in pre.live :
        \A w \in last.written \cup Changed :
            Apart(w, HEADER_SIZE, l.addr, l.size)

C3_Witness ==
    /\ Allocated
    /\ Cardinality(pre.live) >= 2
    /\ Cardinality(last.written) = 3
    /\ last.block # pre.first_header

\* the blocks of the chain, as it was before the last call, that are not
\* allocated and large enough for a request rounded to size bytes at
\* alignment align
LargeEnough(hdr, size, align) ==
    /\ ~hdr.is_allocated
    /\ hdr.size >= size + 2 * HEADER_SIZE + Max(align, HEADER_SIZE)

PreChain == ChainFrom(pre.heap, pre.first_header)

\* -------------------------------------------------------------------- C4
\* C4: a loop that allocates one fixed layout and frees the result, with
\* no other allocation live, never gets a null address once its first
\* allocate has succeeded.
C4_LoopNeverRunsDry ==
    ~(/\ last.op = "alloc"
      /\ ~last.ok
      /\ loop # NoLoop
      /\ loop = [size |-> last.size, align |-> last.align])

\* -------------------------------------------------------------------- C5
\* C5: after deallocate(a), a later allocate of the same size and alignment
\* hands a out again; here, for the allocate that follows while a is the
\* only address that was ever returned.
C5_FreedAddressReturnedAgain ==
    (/\ Allocated
     /\ pre.live = {}
     /\ \E r \in returned :
          /\ r.addr \in pre.freed
          /\ r.size = last.size
          /\ r.align = last.align
          /\ \A q \in returned : q.addr \in {r.addr, last.addr})
    => last.addr \in pre.freed

\* what the code does instead: an address is handed out at most once
C5_NeverReturnedAgain ==
    Allocated => last.addr \notin pre.freed \cup {l.addr : l \in pre.live}

\* -------------------------------------------------------------------- C6
\* C6: allocate returns a null address exactly when no block of the chain
\* is both not allocated and large enough for the rounded request, and it
\* never aborts.
C6_NullIffNoBlockFits ==
    last.op = "alloc" =>
        /\ ~panicked
        /\ (~last.ok) = (last.addr = Null)
        /\ (last.addr = Null) =
             (\A i \in 1..Len(PreChain) :
                 ~LargeEnough(pre.heap[PreChain[i]], RoundedSize(last.size), last.align))

\* -------------------------------------------------------------------- C7
\* C7: allocate(0, align) succeeds with a non-null address whenever the
\* chain holds a free block that can provide HEADER_SIZE bytes at the
\* requested alignment.
C7_ZeroSizeSucceeds ==
    (/\ last.op = "alloc"
     /\ last.size = 0
     /\ \E i \in 1..Len(PreChain) :
          LargeEnough(pre.heap[PreChain[i]], HEADER_SIZE, last.align))
    => last.ok /\ last.addr # Null

\* -------------------------------------------------------------------- C8
\* C8: a successful allocate carves its result from the first block, in
\* chain order from the head, that is not allocated and whose size is at
\* least rounded_size + 2 * HEADER_SIZE + max(align, HEADER_SIZE); every
\* block that precedes it in the chain is left unchanged.
C8_FirstFit ==
    Allocated =>
        \E i \in 1..Len(PreChain) :
            LET b == PreChain[i] IN
            /\ LargeEnough(pre.heap[b], RoundedSize(last.size), last.align)
            /\ \A j \in 1..(i - 1) :
                 /\ ~LargeEnough(pre.heap[PreChain[j]], RoundedSize(last.size), last.align)
                 /\ heap[PreChain[j]] = pre.heap[PreChain[j]]
            /\ last.block = b
            /\ b < last.addr
            /\ last.addr + last.size <= b + pre.heap[b].size
            /\ SubSeq(ChainFrom(heap, first_header), 1, i) = SubSeq(PreChain, 1, i)

C8_Witness ==
    /\ Allocated
    /\ Len(PreChain) >= 3
    /\ last.block = PreChain[3]
    /\ ~pre.heap[PreChain[1]].is_allocated
    /\ pre.freed # {}

\* -------------------------------------------------------------------- C9
\* C9: deallocate(a) only clears the is_allocated flag of the header
\* HEADER_SIZE bytes before a: that header keeps its place, size and next,
\* every other header and the head are unchanged, and no headers are merged.
C9_DeallocFrame ==
    last.op = "dealloc" =>
        LET region == last.addr - HEADER_SIZE IN
        /\ region \in DOMAIN pre.heap
        /\ DOMAIN heap = DOMAIN pre.heap
        /\ heap[region].is_allocated = FALSE
        /\ heap[region].size = pre.heap[region].size
        /\ heap[region].next_header = pre.heap[region].next_header
        /\ \A a \in DOMAIN pre.heap : a # region => heap[a] = pre.heap[a]
        /\ first_header = pre.first_header
        /\ ChainFrom(heap, first_header) = PreChain
        /\ last.written = {region}

C9_Witness ==
    /\ last.op = "dealloc"
    /\ pre.heap[last.addr - HEADER_SIZE].is_allocated
    /\ \E a \in DOMAIN heap :
         /\ ~heap[a].is_allocated
         /\ a + heap[a].size = last.addr - HEADER_SIZE
    /\ \E a \in DOMAIN heap :
         /\ ~heap[a].is_allocated
         /\ a = last.addr - HEADER_SIZE + heap[last.addr - HEADER_SIZE].size

\* ------------------------------------------------------------------- C10
\* C10: a second deallocate(a), with any calls in between, leaves the links
\* and sizes of all headers as they were and the flag of a's header clear.
C10_DeallocIdempotent ==
    (last.op = "dealloc" /\ last.addr \in pre.freed) =>
        /\ heap = pre.heap
        /\ first_header = pre.first_header
        /\ ~heap[last.addr - HEADER_SIZE].is_allocated

C10_Witness ==
    /\ last.op = "dealloc"
    /\ last.addr \in pre.freed
    /\ pre.last.op = "alloc"
    /\ pre.last.ok
    /\ pre.live # {}

\* ------------------------------------------------------------------- C11
\* C11: deallocate on an address that allocate never returned aborts and
\* modifies no byte of the managed memory and no header of the chain.
C11_ForeignDeallocAborts ==
    last.op = "dealloc_foreign" =>
        /\ panicked
        /\ last.written = {}
        /\ heap = pre.heap

\* ------------------------------------------------------------------- C12
\* C12: a second init_with_mmap after the chain was seeded fails loudly and
\* leaves the existing chain, with the headers of live allocations, as it was.
C12_ReinitRefused ==
    last.op = "reinit" =>
        /\ panicked
        /\ first_header = pre.first_header
        /\ heap = pre.heap

\* -------------------------------------------- vocabulary of initialisation
\* the region a descriptor offers once the page at address 0 is skipped
RegionStart(d) == IF d.physical_start = 0 THEN PAGE_SIZE ELSE d.physical_start

RegionSize(d) ==
    IF d.physical_start = 0
    THEN Max(d.number_of_pages * PAGE_SIZE - PAGE_SIZE, 0)
    ELSE d.number_of_pages * PAGE_SIZE

Usable(d) == d.memory_type = CONVENTIONAL_MEMORY

Kept(d) == Usable(d) /\ RegionSize(d) > PAGE_SIZE

Reverse(q) == [i \in 1..Len(q) |-> q[Len(q) + 1 - i]]

\* the bytes a descriptor describes
Described(d) ==
    {a \in DOMAIN heap :
        /\ d.physical_start <= a
        /\ a < d.physical_start + d.number_of_pages * PAGE_SIZE}

Initialised == phase = "run" /\ last.op = "init"

\* ------------------------------------------------------------------- C13
\* C13: initialize turns each usable region larger than one page into one
\* free header at the region start with the region's size and prepends it:
\* the chain lists the kept regions in reverse order of the map, each
\* header's next being the head that existed before it was added; regions
\* of any other kind contribute no header.
C13_InitBuildsChain ==
    Initialised =>
        LET kept == Reverse(SelectSeq(memory_map, Kept))
            chain == ChainFrom(heap, first_header)
        IN
        /\ Len(chain) = Len(kept)
        /\ DOMAIN heap = {chain[i] : i \in 1..Len(chain)}
        /\ \A i \in 1..Len(kept) :
             /\ chain[i] = RegionStart(kept[i])
             /\ heap[chain[i]].size = RegionSize(kept[i])
             /\ ~heap[chain[i]].is_allocated
             /\ heap[chain[i]].next_header =
                  IF i < Len(kept) THEN RegionStart(kept[i + 1]) ELSE Null
        /\ \A i \in 1..Len(memory_map) :
             ~Usable(memory_map[i]) => Described(memory_map[i]) = {}

C13_Witness ==
    /\ Initialised
    /\ Len(ChainFrom(heap, first_header)) >= 2
    /\ \E i \in 1..Len(memory_map) : ~Usable(memory_map[i])

\* ------------------------------------------------------------------- C14
\* C14: initialize discards every usable region whose size, after the first
\* page is skipped when it starts at address 0, does not exceed one page:
\* no header lies in such a region, and the chain holds only the others.
C14_SmallRegionsDiscarded ==
    Initialised =>
        /\ \A i \in 1..Len(memory_map) :
             (Usable(memory_map[i]) /\ RegionSize(memory_map[i]) <= PAGE_SIZE)
                => Described(memory_map[i]) = {}
        /\ Cardinality(DOMAIN heap) =
             Cardinality({i \in 1..Len(memory_map) : Kept(memory_map[i])})

C14_Witness ==
    /\ Initialised
    /\ \E i \in 1..Len(memory_map) : memory_map[i] = Desc(0, 1, CONVENTIONAL_MEMORY)
    /\ first_header # Null

\* ------------------------------------------------------------------- C15
\* C15 as stated: a usable region of exactly two pages starting at address
\* 0 yields a free header at address 4096 with size 4096 in the chain.
C15_TwoPagesAtZeroYieldOnePage ==
    (Initialised /\ \E i \in 1..Len(memory_map) :
                        memory_map[i] = Desc(0, 2, CONVENTIONAL_MEMORY))
    => /\ 4096 \in DOMAIN heap
       /\ heap[4096].size = 4096
       /\ ~heap[4096].is_allocated
       /\ \E i \in 1..Len(ChainFrom(heap, first_header)) :
            ChainFrom(heap, first_header)[i] = 4096

\* C15 as amended: a usable region of exactly two pages starting at address
\* 0 is discarded (one page is left after the skip, which does not exceed
\* one page); three pages starting at 0 are the smallest such region that
\* yields a block, a free header at 4096 with size 8192.
C15_TwoPagesAtZeroDiscarded ==
    Initialised =>
        \A i \in 1..Len(memory_map) :
            /\ memory_map[i] = Desc(0, 2, CONVENTIONAL_MEMORY)
                 => Described(memory_map[i]) = {}
            /\ memory_map[i] = Desc(0, 3, CONVENTIONAL_MEMORY)
                 => /\ 4096 \in DOMAIN heap
                    /\ heap[4096].size = 8192
                    /\ ~heap[4096].is_allocated

C15_Witness ==
    /\ Initialised
    /\ \E i \in 1..Len(memory_map) : memory_map[i] = Desc(0, 2, CONVENTIONAL_MEMORY)
    /\ first_header = Null

\* ------------------------------------------------------------------- C16
\* C16: after initialize with a single 1 MiB usable region, the sequence
\* allocate(128, 128), allocate(6000, 64), deallocate(first),
\* allocate(64, 64) has every allocate succeed, and the byte range of the
\* final allocation does not overlap the still-live 6000-byte allocation.
C16_Scenario ==
    /\ phase \in {"first", "second", "final"} =>
         /\ last.op = "alloc"
         /\ last.ok
         /\ last.addr # Null
         /\ ~panicked
    /\ phase = "final" =>
         /\ \E l \in live : l.size = 6000
         /\ \A l \in live :
              l.size = 6000 => Apart(last.addr, last.size, l.addr, l.size)

C16_Witness ==
    /\ phase = "final"
    /\ last.ok
    /\ last.size = 64
    /\ \E l \in live : l.size = 6000 /\ l.addr > last.addr
    /\ freed # {}

\* ----------------------------------------------- vocabulary of rounding
\* the powers of two a word can hold
WordPowers == {2 ^ k : k \in 0..(WordBits - 1)}

\* the call of round_up_to_nearest_pow2 has returned
Rounded == pw.done

\* ------------------------------------------------------------------- C17
\* C17: for every v >= 1 whose result fits the word, the function returns
\* Ok(p) with p the smallest power of two that is >= v, so a power of two
\* maps to itself; for v = 0 it returns the out-of-range error.
C17_SmallestPowerOfTwo ==
    Rounded =>
        /\ pw.v = 0 => ~pw.res.ok
        /\ (pw.v >= 1 /\ \E p \in WordPowers : p >= pw.v) =>
             /\ pw.res.ok
             /\ pw.res.val \in WordPowers
             /\ pw.res.val >= pw.v
             /\ \A p \in WordPowers : p >= pw.v => p >= pw.res.val
        /\ pw.v \in WordPowers => pw.res.val = pw.v

C17_Witness ==
    /\ Rounded
    /\ pw.v = 5
    /\ pw.res = [ok |-> TRUE, val |-> 8]

\* ------------------------------------------------------------------- C18
\* C18: the function returns the out-of-range error exactly when v = 0 or
\* v exceeds the largest power of two of the word, 2^(w-1); it never
\* returns a wrapped value, and for v = 2^(w-1) it returns Ok(2^(w-1)).
C18_OutOfRangeExactly ==
    Rounded =>
        /\ ~pw.res.ok <=> (pw.v = 0 \/ pw.v > 2 ^ (WordBits - 1))
        /\ pw.res.ok => (pw.res.val >= pw.v /\ pw.res.val < Word)
        /\ pw.v = 2 ^ (WordBits - 1) =>
             pw.res = [ok |-> TRUE, val |-> 2 ^ (WordBits - 1)]

C18_Witness ==
    /\ Rounded
    /\ pw.v = 2 ^ (WordBits - 1) + 1
    /\ ~pw.res.ok

\* ------------------------------------------------------------------- C19
\* C19: under every interleaving of callers of lock() and drops of guards
\* at most one MutexGuard exists at any time: a try_lock succeeds only when
\* the locked flag was false and no guard was live.
C19_MutualExclusion ==
    /\ Cardinality(Guards) <= 1
    /\ Guards # {} => locked
    /\ (mxlast.ev = "try" /\ mxlast.won) => (~mxlast.was /\ mxlast.guards = 0)

C19_Witness ==
    /\ mxlast.ev = "try"
    /\ ~mxlast.won
    /\ mxlast.guards = 1
    /\ \E p \in Procs : proc[p].pc = "held" /\ p # mxlast.p

\* ------------------------------------------------------------------- C20
\* C20: when a MutexGuard goes out of scope the locked flag becomes false,
\* also when it is the guard of under_locked and whether the closure
\* returned Ok or Err; the next attempt to lock after that succeeds, so a
\* lock() that follows does so on its first attempt.
C20_GuardReleases ==
    /\ mxlast.ev \in {"return", "drop"} => (~locked /\ Guards = {})
    /\ (mxprev.ev \in {"return", "drop"} /\ mxlast.ev = "try") =>
         mxlast.won

C20_Witness ==
    /\ mxprev.ev = "return"
    /\ mxprev.res = "Err"
    /\ mxlast.ev = "try"
    /\ mxlast.p = mxprev.p
    /\ mxlast.first
    /\ mxlast.won

\* ------------------------------------------------------------------- C21
\* C21: lock() has exactly two outcomes: it returns a guard as soon as one
\* of its attempts finds the flag free, within the budget, or it panics
\* when every attempt of the budget has failed; it returns nothing else and
\* it never panics before the budget is used up.
C21_GuardOrPanic ==
    /\ \A p \in Procs :
         /\ proc[p].pc \in {"idle", "try", "won", "held", "ran", "panic"}
         /\ proc[p].pc = "panic" => proc[p].tries = SpinBudget
         /\ proc[p].pc \in {"won", "held", "ran"} => proc[p].tries < SpinBudget
         /\ proc[p].tries <= SpinBudget
    /\ mxlast.ev = "try" =>
         /\ mxlast.won <=> ~mxlast.was
         /\ mxlast.won <=> mxlast.p \in Guards
    /\ mxlast.ev = "panic" => mxlast.p \notin Guards

C21_Witness ==
    \E p, q \in Procs :
        /\ proc[p].pc = "panic"
        /\ proc[q].pc = "held"
        /\ proc[q].tries = SpinBudget - 1

\* ------------------------------------------------------------------- C22
\* C22: when the owner of a live guard calls lock() again before releasing,
\* the second call never returns a guard: each of its attempts finds the
\* flag taken, it ends in the panic once the whole budget is used, and no
\* second guard for the protected value comes to exist.
C22_NotReentrant ==
    /\ \A p \in Procs :
         /\ proc[p].pc # "double"
         /\ proc[p].pc = "nested" => (locked /\ proc[p].tries <= SpinBudget)
         /\ proc[p].pc = "nested_panic" => proc[p].tries = SpinBudget
    /\ mxlast.ev = "retry" => (mxlast.was /\ ~mxlast.won /\ mxlast.guards = 1)
    /\ Cardinality(Guards) <= 1

C22_Witness ==
    \E p \in Procs :
        /\ proc[p].pc = "nested_panic"
        /\ mxlast.ev = "panic"
        /\ mxlast.p = p
        /\ mxprev.ev = "retry"
        /\ locked

\* ------------------------------------------------------------------- C23
\* C23: every mutation of the head or of a header's is_allocated, size or
\* next field is made only while the caller holds the exclusive guard over
\* the chain, in allocate, in deallocate and in initialize, however the
\* callers interleave.
C23_MutationsUnderGuard ==
    (access.op \in {"replace", "link", "alloc", "dealloc"} /\ access.written # {})
        => access.held

\* ------------------------------------------------------------------- C24
\* C24: whenever no operation holds the chain exclusively, every header
\* that was linked before is still reachable from the head; initialize
\* makes a new region header the head only when its next already points at
\* the prior head.
C24_NoPartialMutation ==
    /\ borrow = "none" => linked \subseteq Reach(heap, first_header)
    /\ task.pc \in {"replaced", "dropped"} =>
         heap[first_header].next_header = task.prev_last

\* ------------------------------------------------------------------- C25
\* C25: an allocate from an interrupt handler, taken while an allocate or a
\* step of initialize of the interrupted flow is incomplete, crashes; it
\* does not go on to read or mutate the chain.
C25_ReentrantAllocCrashes ==
    (/\ access.by = "irq"
     /\ access.op = "alloc"
     /\ access.during \in {"replaced", "dropped", "linked", "alloc"})
        => (access.crashed /\ access.written = {})

\* ------------------------------------------------- vocabulary of carving
\* the block the last allocation was carved from, as it was before the call
CarvedFrom == pre.heap[last.block]

\* the end of that block before the call
CarvedEnd == last.block + CarvedFrom.size

\* the alignment in effect for a requested alignment
EffectiveAlign(reqAlign) == Max(reqAlign, HEADER_SIZE)

\* x rounded down to a multiple of al
RoundDown(x, al) == x - (x % al)

\* ------------------------------------------------------------------- C26
\* C26: a successful allocate from block B (old size S, old next N, rounded
\* size s, effective alignment al) returns a = (B.end - s) rounded down to
\* al and leaves B -> A -> N or B -> A -> P -> N: A is an allocated header
\* at a - HEADER_SIZE of size s + HEADER_SIZE; P exists exactly when A.end
\* differs from the old B.end and is a free header at A.end covering the
\* gap up to the old B.end; B.size has decreased by A.size + P.size.
C26_CarveShape ==
    Allocated =>
        LET B == last.block
            s == RoundedSize(last.size)
            al == EffectiveAlign(last.align)
            a == last.addr
            A == a - HEADER_SIZE
            Aend == A + s + HEADER_SIZE
        IN
        /\ a = RoundDown(CarvedEnd - s, al)
        /\ A \in DOMAIN heap
        /\ heap[A].is_allocated
        /\ heap[A].size = s + HEADER_SIZE
        /\ heap[B].next_header = A
        /\ IF Aend = CarvedEnd
           THEN /\ heap[A].next_header = CarvedFrom.next_header
                /\ heap[B].size = CarvedFrom.size - heap[A].size
                /\ last.written = {B, A}
           ELSE /\ heap[A].next_header = Aend
                /\ Aend \in DOMAIN heap
                /\ ~heap[Aend].is_allocated
                /\ heap[Aend].size = CarvedEnd - Aend
                /\ heap[Aend].next_header = CarvedFrom.next_header
                /\ heap[B].size = CarvedFrom.size - heap[A].size - heap[Aend].size
                /\ last.written = {B, A, Aend}

C26_Witness ==
    /\ Allocated
    /\ last.addr + RoundedSize(last.size) # CarvedEnd
    /\ CarvedFrom.next_header # Null
    /\ last.addr - HEADER_SIZE + RoundedSize(last.size) + HEADER_SIZE \in DOMAIN heap

\* ------------------------------------------------------------------- C27
\* C27: allocation carves from the tail: after a successful allocate from
\* block B, B's header is still at its address and still free, and the
\* returned range [a, a + rounded size) lies inside B's original span, at
\* or above B.start + 2 * HEADER_SIZE and at or below B's original end.
C27_CarvedFromTail ==
    Allocated =>
        LET B == last.block
            s == RoundedSize(last.size)
        IN
        /\ B \in DOMAIN heap
        /\ ~heap[B].is_allocated
        /\ ~CarvedFrom.is_allocated
        /\ B \in Reach(heap, first_header)
        /\ B + heap[B].size <= last.addr - HEADER_SIZE
        /\ last.addr >= B + 2 * HEADER_SIZE
        /\ last.addr + s <= CarvedEnd

C27_Witness ==
    /\ Allocated
    /\ last.addr + RoundedSize(last.size) = CarvedEnd
    /\ last.block # first_header

\* ------------------------------------------------------------------- C28
\* C28: the assertion in provide never fails: for every free block that
\* passes can_provide and every power-of-two alignment, the bytes consumed
\* by the allocated header and the padding header leave the block at least
\* HEADER_SIZE, so the subtraction does not underflow and allocate never
\* panics.
C28_AssertionHolds ==
    /\ ~panicked
    /\ Allocated =>
         LET used == CarvedFrom.size - heap[last.block].size IN
         /\ used >= RoundedSize(last.size) + HEADER_SIZE
         /\ CarvedFrom.size >= used + HEADER_SIZE
         /\ heap[last.block].size >= HEADER_SIZE

C28_Witness ==
    /\ phase = "provided"
    /\ Allocated
    /\ CarvedFrom.size = RoundedSize(last.size) + 2 * HEADER_SIZE
                           + EffectiveAlign(last.align)
    /\ Cardinality(last.written) = 3

\* ------------------------------------------------------------------- C29
\* C29: in every reachable state after initialize with page-aligned
\* regions, every header of the chain, region remainder, allocated header
\* or padding header, has a size of at least HEADER_SIZE; a padding header
\* is never created smaller than a header.
C29_HeadersHoldThemselves ==
    /\ \A a \in Reach(heap, first_header) : heap[a].size >= HEADER_SIZE
    /\ \A a \in DOMAIN heap : heap[a].size >= HEADER_SIZE
    /\ Allocated =>
         \A w \in last.written \ {last.block, last.addr - HEADER_SIZE} :
             /\ ~heap[w].is_allocated
             /\ heap[w].size >= HEADER_SIZE

C29_Witness ==
    /\ phase = "run"
    /\ Allocated
    /\ heap[last.block].size < PAGE_SIZE
    /\ \E w \in last.written \ {last.block, last.addr - HEADER_SIZE} :
         heap[w].size < PAGE_SIZE

\* ------------------------------------------------------------------- C30
\* at most n headers met by following next_header from a
RECURSIVE Follow(_, _, _)
Follow(h, a, n) ==
    IF a = Null \/ n = 0 \/ a \notin DOMAIN h
    THEN << >>
    ELSE << a >> \o Follow(h, h[a].next_header, n - 1)

\* C30: in every reachable state the headers reachable from the head form
\* a finite acyclic singly-linked chain in which each header appears once,
\* and the spans [start, start + size) of two distinct headers are disjoint.
C30_ChainWellFormed ==
    LET n == Cardinality(DOMAIN heap)
        c == Follow(heap, first_header, n + 1)
    IN
    /\ Len(c) <= n
    /\ \A i, j \in 1..Len(c) : i # j => c[i] # c[j]
    /\ first_header # Null => first_header \in DOMAIN heap
    /\ \A i \in 1..Len(c) :
         heap[c[i]].next_header = Null \/ heap[c[i]].next_header \in DOMAIN heap
    /\ \A i, j \in 1..Len(c) :
         i # j => Apart(c[i], heap[c[i]].size, c[j], heap[c[j]].size)

C30_Witness ==
    /\ Len(ChainFrom(heap, first_header)) >= 5
    /\ \E a, b \in DOMAIN heap :
         /\ a # b
         /\ heap[a].is_allocated
         /\ ~heap[b].is_allocated
         /\ a + heap[a].size = b

\* ------------------------------------------------------------------- C31
\* C31: headers are never removed or destroyed: across every operation the
\* set of header addresses reachable from the head only grows (a successful
\* allocate adds one or two, a deallocate or a failed allocate adds none),
\* no header's address changes, and the panic of Header's drop, which a
\* header that lost its owner would raise, is never reached.
C31_HeadersStay ==
    LET old == Reach(pre.heap, pre.first_header)
        new == Reach(heap, first_header)
    IN
    /\ old \subseteq new
    /\ DOMAIN pre.heap \subseteq DOMAIN heap
    /\ DOMAIN heap = new
    /\ ~panicked
    /\ Allocated => Cardinality(new \ old) \in {1, 2}
    /\ (last.op = "dealloc" \/ (last.op = "alloc" /\ ~last.ok)) => new = old

C31_Witness ==
    /\ last.op = "dealloc"
    /\ Cardinality(Reach(heap, first_header)) >= 5
    /\ heap[last.block].next_header # Null
    /\ pre.last.op = "alloc"
    /\ pre.last.ok

\* ------------------------------------------------------------------- C32
\* C32: whenever a lock() call exhausts its budget, the taker_line_num it
\* reports is the source line of the most recent successful acquisition,
\* that of the guard that is blocking it, under every interleaving.
C32_PanicNamesHolder ==
    mxlast.ev = "panic" =>
        /\ mxlast.holder # 0
        /\ mxlast.seen = mxlast.holder

\* ------------------------------------------------------------------- C33
\* C33: the global timer is set at most once: a set_global_hpet call that
\* begins when a timer is stored aborts and leaves the stored timer as it
\* was, and of the calls that interleave at most one stores its timer.
C33_SetAtMostOnce ==
    /\ Len(stored) <= 1
    /\ \A p \in Procs :
         (caller[p].entered /\ caller[p].at \in {"check", "store"}) =>
             (caller[p].at = "check" /\ HPET # NoHpet)
    /\ hplast.ev = "abort" => (HPET = hplast.before /\ HPET # NoHpet)

\* ------------------------------------------------------------------- C34
\* the sizes of the headers of c, added up
RECURSIVE SumSizes(_, _)
SumSizes(h, c) == IF c = << >> THEN 0 ELSE h[Head(c)].size + SumSizes(h, Tail(c))

\* the places in the chain c of the headers that lie inside the region r
PlacesIn(c, r) ==
    {k \in 1..Len(c) : r.start_addr <= c[k] /\ c[k] < r.start_addr + r.size}

\* the descriptors of the memory map that initialize made a region of
KeptRegions == {i \in DOMAIN memory_map : Kept(memory_map[i])}

\* C34: after any sequence of allocate and deallocate calls the headers
\* carved from one initial region tile it exactly: they appear consecutively
\* in the chain in ascending address order, each header's start + size is
\* the start of the next, and their sizes sum to the region's initial size.
C34_RegionTiled ==
    phase = "run" =>
        LET c == ChainFrom(heap, first_header) IN
        \A i \in KeptRegions :
            LET r == region_of(memory_map[i])
                at == PlacesIn(c, r)
                lo == CHOOSE k \in at : \A m \in at : k <= m
                hi == CHOOSE k \in at : \A m \in at : k >= m
            IN
            /\ at # {}
            /\ at = lo..hi
            /\ c[lo] = r.start_addr
            /\ \A k \in lo..(hi - 1) : c[k] + heap[c[k]].size = c[k + 1]
            /\ c[hi] + heap[c[hi]].size = r.start_addr + r.size
            /\ SumSizes(heap, SubSeq(c, lo, hi)) = r.size

\* a region among several holds a remainder, allocated headers and a
\* padding header, and one of its blocks has been freed
C34_Witness ==
    /\ phase = "run"
    /\ last.op = "dealloc"
    /\ Cardinality(KeptRegions) >= 2
    /\ \E i \in KeptRegions :
         LET c == ChainFrom(heap, first_header)
             at == PlacesIn(c, region_of(memory_map[i]))
         IN
         /\ Cardinality(at) >= 4
         /\ \E k \in at : heap[c[k]].is_allocated
         /\ \E k \in at : c[k] = last.block

\* ------------------------------------------------------------------- C35
\* C35: a failed allocate changes nothing: when allocate returns none, no
\* block being able to provide or the size having no power of two to be
\* rounded to, the head and the next, size and is_allocated fields of every
\* header are exactly as before the call.
C35_FailedAllocateKeeps ==
    (last.op = "alloc" /\ ~last.ok) =>
        /\ first_header = pre.first_header
        /\ heap = pre.heap
        /\ Changed = {}
        /\ ~panicked

\* allocate fails on a chain of free and allocated headers none of which
\* can provide, a freed block of the very size among them
C35_Witness ==
    /\ last.op = "alloc"
    /\ ~last.ok
    /\ last.size > 1
    /\ Len(ChainFrom(heap, first_header)) >= 3
    /\ \E a \in DOMAIN heap : heap[a].is_allocated
    /\ \E r \in returned : r.addr \in freed /\ r.size = last.size

\* ------------------------------------------------------------------- C36
\* C36: global_timestamp is monotonic in the hardware counter: of two
\* readings of one timer, that of the larger counter value is not the
\* smaller (the multiplication by 1_000_000_000 neither overflows nor
\* wraps); with no timer set the result is zero.
C36_TimestampMonotonic ==
    /\ ~hplast.overflow
    /\ \A i \in 1..Len(stamps) : stamps[i].hpet = NoHpet => stamps[i].ns = 0
    /\ (Len(stamps) = 2 /\ stamps[1].hpet = stamps[2].hpet
            /\ stamps[1].counter <= stamps[2].counter) =>
           stamps[1].ns <= stamps[2].ns

====
